---- MODULE Spec2Model ----
(***************************************************************************)
(* Model of drgpy/comparing_appendix_A.py: the change classifier            *)
(* compare_drg_info, the description highlighter highlight_changes, the     *)
(* version validation validate_versions and the command line block.         *)
(*                                                                          *)
(* A DRG code is a string of digits, modelled as a sequence of digits so    *)
(* that Python's lexicographic string order can be computed.  A dict is a   *)
(* sequence of <<key, value>> pairs with distinct keys, in insertion        *)
(* order.  A text is a sequence of characters.                              *)
(***************************************************************************)
EXTENDS Integers, Sequences, FiniteSets, TLC

VARIABLES
    pc,          \* position of the running function or script
    v1_info,     \* first record set (dict code -> record)
    v2_info,     \* second record set
    changes,     \* result of compare_drg_info
    old_text,    \* first argument of highlight_changes
    new_text,    \* second argument of highlight_changes
    highlighted, \* pair returned by highlight_changes
    version1,    \* args.version1
    version2,    \* args.version2
    examples,    \* args.examples (0 when the flag is absent)
    raised,      \* the exception raised in the try block, NoError when none
    stdout,      \* what the script has printed, in order
    calls,       \* the functions the script has called, in order
    exit_code    \* exit status of the process, NONE while it runs

vars == <<pc, v1_info, v2_info, changes, old_text, new_text, highlighted,
          version1, version2, examples, raised, stdout, calls, exit_code>>

----------------------------------------------------------------------------
(* Bounds and value pools                                                   *)

MaxEntries == 3     \* most records in the two record sets of one comparison
MaxLen == 3         \* longest text given to highlight_changes
MaxExamples == 2    \* largest N given with --examples

Chars == {"c", "a", "t", "r"}
Codes == {<<1, 0>>, <<2>>}          \* the DRG codes "10" and "2"
Mdcs == {1, 2}
Descs == {<<"c", "a", "t">>, <<"c", "a", "r">>}      \* the descriptions "cat" and "car"

NONE == "None"
NoError == [type |-> "None", msg |-> <<>>]   \* no exception

Available == {"v41", "v42"}           \* the v* directories under data/
Identifiers == Available \cup {"v99"} \* what the command line may name

Records == [mdc : Mdcs, is_medical : BOOLEAN, is_surgical : BOOLEAN, desc : Descs]

----------------------------------------------------------------------------
(* Python helpers                                                           *)

Range(s) == {s[i] : i \in 1..Len(s)}

\* list(d.keys()): the keys in insertion order
Keys(d) == [i \in 1..Len(d) |-> d[i][1]]

\* set(d.keys())
KeySet(d) == {d[i][1] : i \in 1..Len(d)}

\* d[k]
Get(d, k) == d[CHOOSE i \in 1..Len(d) : d[i][1] = k][2]

\* a < b on Python strings: the first differing character decides, a proper
\* prefix is smaller
StrLess(a, b) ==
    \E i \in 1..Len(b) :
        /\ \A j \in 1..(i - 1) : j <= Len(a) /\ a[j] = b[j]
        /\ \/ i = Len(a) + 1
           \/ i <= Len(a) /\ a[i] < b[i]

RECURSIVE Sorted(_)
\* sorted(S): ascending list of the elements of a set of strings
Sorted(S) ==
    IF S = {} THEN <<>>
    ELSE LET m == CHOOSE x \in S : \A y \in S \ {x} : StrLess(x, y)
         IN  <<m>> \o Sorted(S \ {m})

\* every dict with at most n keys
RecordSets(n) ==
    UNION {{d \in [1..k -> Codes \X Records] :
               \A i, j \in 1..k : i # j => d[i][1] # d[j][1]} :
           k \in 0..(IF n < Cardinality(Codes) THEN n ELSE Cardinality(Codes))}

----------------------------------------------------------------------------
(* compare_drg_info                                                         *)

\* all_drgs built without sorted(): keys of v1, then the other keys of v2
AllDrgsUnsorted(v1, v2) ==
    Keys(v1) \o SelectSeq(Keys(v2), LAMBDA k : k \notin KeySet(v1))

AllDrgs(v1, v2) == Sorted(KeySet(v1) \cup KeySet(v2))

EmptyChanges ==
    [new |-> <<>>, removed |-> <<>>, mdc_changed |-> <<>>,
     type_changed |-> <<>>, desc_changed |-> <<>>, unchanged |-> <<>>]

\* the description compared before mdc and the flags
ClassifyDescFirst(v1_data, v2_data) ==
    IF v1_data.desc # v2_data.desc THEN "desc_changed"
    ELSE IF v1_data.mdc # v2_data.mdc THEN "mdc_changed"
    ELSE IF <<v1_data.is_medical, v1_data.is_surgical>> #
            <<v2_data.is_medical, v2_data.is_surgical>> THEN "type_changed"
    ELSE "unchanged"

\* the flag pair of the new record taken in the wrong order
ClassifyFlagsCrossed(v1_data, v2_data) ==
    IF v1_data.mdc # v2_data.mdc THEN "mdc_changed"
    ELSE IF <<v1_data.is_medical, v1_data.is_surgical>> #
            <<v2_data.is_surgical, v2_data.is_medical>> THEN "type_changed"
    ELSE IF v1_data.desc # v2_data.desc THEN "desc_changed"
    ELSE "unchanged"

\* category of a code present in both versions
Classify(v1_data, v2_data) ==
    IF v1_data.mdc # v2_data.mdc THEN "mdc_changed"
    ELSE IF <<v1_data.is_medical, v1_data.is_surgical>> #
            <<v2_data.is_medical, v2_data.is_surgical>> THEN "type_changed"
    ELSE IF v1_data.desc # v2_data.desc THEN "desc_changed"
    ELSE "unchanged"

\* the last test written as a separate if: a description change is also
\* appended to unchanged
CompareStepDup(ch, drg, v1, v2) ==
    IF drg \notin KeySet(v1)
    THEN [ch EXCEPT !.new = Append(@, <<drg, Get(v2, drg)>>)]
    ELSE IF drg \notin KeySet(v2)
    THEN [ch EXCEPT !.removed = Append(@, <<drg, Get(v1, drg)>>)]
    ELSE LET v1_data == Get(v1, drg)
             v2_data == Get(v2, drg)
             cat == Classify(v1_data, v2_data)
         IN  IF cat = "unchanged"
             THEN [ch EXCEPT !.unchanged = Append(@, drg)]
             ELSE IF cat = "desc_changed"
             THEN [ch EXCEPT !.desc_changed = Append(@, <<drg, v1_data, v2_data>>),
                             !.unchanged = Append(@, drg)]
             ELSE [ch EXCEPT ![cat] = Append(@, <<drg, v1_data, v2_data>>)]

\* a code missing from v2 is appended to new instead of removed
CompareStepRemovedAsNew(ch, drg, v1, v2) ==
    IF drg \notin KeySet(v1)
    THEN [ch EXCEPT !.new = Append(@, <<drg, Get(v2, drg)>>)]
    ELSE IF drg \notin KeySet(v2)
    THEN [ch EXCEPT !.new = Append(@, <<drg, Get(v1, drg)>>)]
    ELSE LET v1_data == Get(v1, drg)
             v2_data == Get(v2, drg)
             cat == Classify(v1_data, v2_data)
         IN  IF cat = "unchanged"
             THEN [ch EXCEPT !.unchanged = Append(@, drg)]
             ELSE [ch EXCEPT ![cat] = Append(@, <<drg, v1_data, v2_data>>)]

\* a changed entry carries the old record twice
CompareStepSameData(ch, drg, v1, v2) ==
    IF drg \notin KeySet(v1)
    THEN [ch EXCEPT !.new = Append(@, <<drg, Get(v2, drg)>>)]
    ELSE IF drg \notin KeySet(v2)
    THEN [ch EXCEPT !.removed = Append(@, <<drg, Get(v1, drg)>>)]
    ELSE LET v1_data == Get(v1, drg)
             v2_data == Get(v2, drg)
             cat == Classify(v1_data, v2_data)
         IN  IF cat = "unchanged"
             THEN [ch EXCEPT !.unchanged = Append(@, drg)]
             ELSE [ch EXCEPT ![cat] = Append(@, <<drg, v1_data, v1_data>>)]

\* one iteration of the loop over all_drgs
CompareStep(ch, drg, v1, v2) ==
    IF drg \notin KeySet(v1)
    THEN [ch EXCEPT !.new = Append(@, <<drg, Get(v2, drg)>>)]
    ELSE IF drg \notin KeySet(v2)
    THEN [ch EXCEPT !.removed = Append(@, <<drg, Get(v1, drg)>>)]
    ELSE LET v1_data == Get(v1, drg)
             v2_data == Get(v2, drg)
             cat == Classify(v1_data, v2_data)
         IN  IF cat = "unchanged"
             THEN [ch EXCEPT !.unchanged = Append(@, drg)]
             ELSE [ch EXCEPT ![cat] = Append(@, <<drg, v1_data, v2_data>>)]

RECURSIVE CompareLoop(_, _, _, _, _)
CompareLoop(ch, all_drgs, i, v1, v2) ==
    IF i > Len(all_drgs) THEN ch
    ELSE CompareLoop(CompareStep(ch, all_drgs[i], v1, v2), all_drgs, i + 1, v1, v2)

compare_drg_info(v1, v2) == CompareLoop(EmptyChanges, AllDrgs(v1, v2), 1, v1, v2)

----------------------------------------------------------------------------
(* Specification of one call of compare_drg_info                            *)

Idle ==
    /\ old_text = NONE /\ new_text = NONE /\ highlighted = NONE
    /\ version1 = NONE /\ version2 = NONE /\ examples = 0
    /\ raised = NoError /\ stdout = <<>> /\ calls = <<>> /\ exit_code = NONE

InitCompare ==
    /\ pc = "call"
    /\ v1_info \in RecordSets(MaxEntries)
    /\ v2_info \in RecordSets(MaxEntries - Len(v1_info))
    /\ changes = NONE
    /\ Idle

Compare ==
    /\ pc = "call"
    /\ changes' = compare_drg_info(v1_info, v2_info)
    /\ pc' = "compared"
    /\ UNCHANGED <<v1_info, v2_info, old_text, new_text, highlighted, version1,
                   version2, examples, raised, stdout, calls, exit_code>>

NextCompare == Compare

SpecCompare == InitCompare /\ [][NextCompare]_vars

----------------------------------------------------------------------------
(* difflib.SequenceMatcher(None, a, b), for texts shorter than the 200      *)
(* characters at which its popularity heuristic starts.  Positions are      *)
(* Python's: 0-based, ranges half-open; a[i] of Python is a[i + 1] here.    *)

RECURSIVE RunLen(_, _, _, _, _, _)
\* j2len: length of the common run of a[alo:] and b[blo:] that ends at (i, j)
RunLen(a, b, i, j, alo, blo) ==
    IF i < alo \/ j < blo THEN 0
    ELSE IF a[i + 1] # b[j + 1] THEN 0
    ELSE 1 + RunLen(a, b, i - 1, j - 1, alo, blo)

\* find_longest_match: the longest matching block of a[alo:ahi] and b[blo:bhi],
\* the first one met scanning i upwards and, for each i, j upwards
FindLongestMatch(a, b, alo, ahi, blo, bhi) ==
    LET ends == (alo..(ahi - 1)) \X (blo..(bhi - 1))
        k(e) == RunLen(a, b, e[1], e[2], alo, blo)
        best == {e \in ends : k(e) > 0 /\ \A f \in ends : k(f) <= k(e)}
    IN  IF best = {} THEN <<alo, blo, 0>>
        ELSE LET e == CHOOSE x \in best :
                          \A y \in best : x[1] < y[1] \/ (x[1] = y[1] /\ x[2] <= y[2])
             IN  <<e[1] - k(e) + 1, e[2] - k(e) + 1, k(e)>>

RECURSIVE MatchRec(_, _, _, _, _, _)
\* the queue of get_matching_blocks followed by its sort: the blocks left of
\* the longest match, the match, the blocks right of it
MatchRec(a, b, alo, ahi, blo, bhi) ==
    LET x == FindLongestMatch(a, b, alo, ahi, blo, bhi)
        i == x[1]
        j == x[2]
        k == x[3]
    IN  IF k = 0 THEN <<>>
        ELSE (IF alo < i /\ blo < j THEN MatchRec(a, b, alo, i, blo, j) ELSE <<>>)
               \o <<x>>
               \o (IF i + k < ahi /\ j + k < bhi
                   THEN MatchRec(a, b, i + k, ahi, j + k, bhi) ELSE <<>>)

RECURSIVE Collapse(_, _, _, _)
\* adjacent blocks merged into one; cur is (i1, j1, k1)
Collapse(blocks, n, cur, acc) ==
    IF n > Len(blocks)
    THEN IF cur[3] # 0 THEN Append(acc, cur) ELSE acc
    ELSE LET nxt == blocks[n]
         IN  IF cur[1] + cur[3] = nxt[1] /\ cur[2] + cur[3] = nxt[2]
             THEN Collapse(blocks, n + 1, <<cur[1], cur[2], cur[3] + nxt[3]>>, acc)
             ELSE Collapse(blocks, n + 1, nxt,
                           IF cur[3] # 0 THEN Append(acc, cur) ELSE acc)

\* get_matching_blocks, ending with the sentinel (len(a), len(b), 0)
GetMatchingBlocks(a, b) ==
    Append(Collapse(MatchRec(a, b, 0, Len(a), 0, Len(b)), 1, <<0, 0, 0>>, <<>>),
           <<Len(a), Len(b), 0>>)

RECURSIVE OpcodesRec(_, _, _, _, _)
OpcodesRec(blocks, n, i, j, acc) ==
    IF n > Len(blocks) THEN acc
    ELSE LET ai == blocks[n][1]
             bj == blocks[n][2]
             size == blocks[n][3]
             tag == IF i < ai /\ j < bj THEN "replace"
                    ELSE IF i < ai THEN "delete"
                    ELSE IF j < bj THEN "insert"
                    ELSE ""
             acc1 == IF tag # "" THEN Append(acc, <<tag, i, ai, j, bj>>) ELSE acc
             acc2 == IF size # 0
                     THEN Append(acc1, <<"equal", ai, ai + size, bj, bj + size>>)
                     ELSE acc1
         IN  OpcodesRec(blocks, n + 1, ai + size, bj + size, acc2)

\* get_opcodes: the 5-tuples (tag, i1, i2, j1, j2)
GetOpcodes(a, b) == OpcodesRec(GetMatchingBlocks(a, b), 1, 0, 0, <<>>)

----------------------------------------------------------------------------
(* highlight_changes                                                        *)

RED == "\\033[91m"
GREEN == "\\033[92m"
RESET == "\\033[0m"

\* text[i1:i2]
Slice(text, i1, i2) == SubSeq(text, i1 + 1, i2)

\* the replace branch without its second append
HighlightStepReplaceOldOnly(hl, op, old, new) ==
    LET tag == op[1]
        olds == Slice(old, op[2], op[3])
        news == Slice(new, op[4], op[5])
    IN  IF tag = "equal" THEN <<hl[1] \o olds, hl[2] \o news>>
        ELSE IF tag = "delete" THEN <<hl[1] \o <<RED>> \o olds \o <<RESET>>, hl[2]>>
        ELSE IF tag = "insert" THEN <<hl[1], hl[2] \o <<GREEN>> \o news \o <<RESET>>>>
        ELSE IF tag = "replace"
        THEN <<hl[1] \o <<RED>> \o olds \o <<RESET>>, hl[2]>>
        ELSE hl

\* the two lists after one opcode
HighlightStep(hl, op, old, new) ==
    LET tag == op[1]
        olds == Slice(old, op[2], op[3])
        news == Slice(new, op[4], op[5])
    IN  IF tag = "equal" THEN <<hl[1] \o olds, hl[2] \o news>>
        ELSE IF tag = "delete" THEN <<hl[1] \o <<RED>> \o olds \o <<RESET>>, hl[2]>>
        ELSE IF tag = "insert" THEN <<hl[1], hl[2] \o <<GREEN>> \o news \o <<RESET>>>>
        ELSE IF tag = "replace"
        THEN <<hl[1] \o <<RED>> \o olds \o <<RESET>>,
               hl[2] \o <<GREEN>> \o news \o <<RESET>>>>
        ELSE hl

RECURSIVE HighlightLoop(_, _, _, _, _)
HighlightLoop(hl, ops, n, old, new) ==
    IF n > Len(ops) THEN hl
    ELSE HighlightLoop(HighlightStep(hl, ops[n], old, new), ops, n + 1, old, new)

highlight_changes(old, new) ==
    HighlightLoop(<<<<>>, <<>>>>, GetOpcodes(old, new), 1, old, new)

\* every text of at most n characters
Texts(n) == UNION {[1..k -> Chars] : k \in 0..n}

----------------------------------------------------------------------------
(* Specification of one call of highlight_changes                           *)

InitHighlight ==
    /\ pc = "highlight"
    /\ old_text \in Texts(MaxLen)
    /\ new_text \in Texts(MaxLen)
    /\ highlighted = NONE
    /\ v1_info = NONE /\ v2_info = NONE /\ changes = NONE
    /\ version1 = NONE /\ version2 = NONE /\ examples = 0
    /\ raised = NoError /\ stdout = <<>> /\ calls = <<>> /\ exit_code = NONE

Highlight ==
    /\ pc = "highlight"
    /\ highlighted' = highlight_changes(old_text, new_text)
    /\ pc' = "highlighted"
    /\ UNCHANGED <<v1_info, v2_info, changes, old_text, new_text, version1,
                   version2, examples, raised, stdout, calls, exit_code>>

NextHighlight == Highlight

SpecHighlight == InitHighlight /\ [][NextHighlight]_vars

----------------------------------------------------------------------------
(* validate_versions and the command line block                             *)

get_available_versions == Available

ValueError(msg) == [type |-> "ValueError", msg |-> msg]

\* validate_versions without the test for identical versions
validate_versionsNoSame(v1, v2) ==
    LET available == get_available_versions
    IN  IF v1 \notin available THEN ValueError(<<"Version not found", v1, available>>)
        ELSE IF v2 \notin available
        THEN ValueError(<<"Version not found", v2, available>>)
        ELSE NoError

\* the exception validate_versions raises, NoError when it returns True
validate_versions(v1, v2) ==
    LET available == get_available_versions
    IN  IF v1 \notin available THEN ValueError(<<"Version not found", v1, available>>)
        ELSE IF v2 \notin available
        THEN ValueError(<<"Version not found", v2, available>>)
        ELSE IF v1 = v2
        THEN ValueError(<<"Please specify different versions for comparison">>)
        ELSE NoError

Rec(m, med, sur, d) == [mdc |-> m, is_medical |-> med, is_surgical |-> sur, desc |-> d]

\* read_a: what a source file may parse to
ParsedFiles ==
    { <<>>,
      << <<<<1, 0>>, Rec(1, TRUE, FALSE, <<"c", "a", "t">>)>> >>,
      << <<<<2>>, Rec(2, FALSE, TRUE, <<"c", "a", "t">>)>>,
         <<<<1, 0>>, Rec(1, TRUE, FALSE, <<"c", "a", "r">>)>> >>,
      << <<<<1, 0>>, Rec(2, FALSE, FALSE, <<"c", "a", "r">>)>>,
         <<<<2>>, Rec(2, TRUE, TRUE, <<"c", "a", "t">>)>> >> }

\* read_a: the exception of a failed read
ReadError == [type |-> "ParseError", msg |-> <<"appendix_A.txt">>]

\* changes[cat][:N]
FirstN(entries, N) == SubSeq(entries, 1, IF N < Len(entries) THEN N ELSE Len(entries))

\* the lines of one changed entry of the examples
ExampleEntry(cat, e) ==
    IF cat = "desc_changed"
    THEN <<e[1], highlight_changes(e[2].desc, e[3].desc)>>
    ELSE e

\* the sections the examples print: one for each non-empty category but
\* unchanged, with its first N entries
ExampleSections(ch, N) ==
    LET Section(cat) ==
            IF ch[cat] = <<>> THEN <<>>
            ELSE << <<"examples", cat, Len(FirstN(ch[cat], N)), Len(ch[cat]),
                      [i \in 1..Len(FirstN(ch[cat], N)) |-> ExampleEntry(cat, ch[cat][i])]>> >>
    IN  Section("new") \o Section("removed") \o Section("mdc_changed")
          \o Section("type_changed") \o Section("desc_changed")

InitCLI ==
    /\ pc = "validate"
    /\ version1 \in Identifiers
    /\ version2 \in Identifiers
    /\ examples \in 0..MaxExamples
    /\ v1_info = NONE /\ v2_info = NONE /\ changes = NONE
    /\ old_text = NONE /\ new_text = NONE /\ highlighted = NONE
    /\ raised = NoError /\ stdout = <<>> /\ calls = <<>> /\ exit_code = NONE

\* line 136
Validate ==
    /\ pc = "validate"
    /\ calls' = Append(calls, <<"validate_versions", version1, version2>>)
    /\ raised' = validate_versions(version1, version2)
    /\ pc' = IF raised' = NoError THEN "header" ELSE "except"
    /\ UNCHANGED <<v1_info, v2_info, changes, old_text, new_text, highlighted,
                   version1, version2, examples, stdout, exit_code>>

\* lines 138-139
PrintHeader ==
    /\ pc = "header"
    /\ stdout' = Append(stdout, <<"header", version1, version2>>)
    /\ pc' = "read1"
    /\ UNCHANGED <<v1_info, v2_info, changes, old_text, new_text, highlighted,
                   version1, version2, examples, raised, calls, exit_code>>

\* line 141
ReadFirst ==
    /\ pc = "read1"
    /\ calls' = Append(calls, <<"read_appendix_a", version1>>)
    /\ \/ \E r \in ParsedFiles :
             v1_info' = r /\ pc' = "read2" /\ UNCHANGED raised
       \/ raised' = ReadError /\ pc' = "except" /\ UNCHANGED v1_info
    /\ UNCHANGED <<v2_info, changes, old_text, new_text, highlighted,
                   version1, version2, examples, stdout, exit_code>>

\* line 142
ReadSecond ==
    /\ pc = "read2"
    /\ calls' = Append(calls, <<"read_appendix_a", version2>>)
    /\ \/ \E r \in ParsedFiles :
             v2_info' = r /\ pc' = "compare" /\ UNCHANGED raised
       \/ raised' = ReadError /\ pc' = "except" /\ UNCHANGED v2_info
    /\ UNCHANGED <<v1_info, changes, old_text, new_text, highlighted,
                   version1, version2, examples, stdout, exit_code>>

\* line 143
CompareCall ==
    /\ pc = "compare"
    /\ calls' = Append(calls, <<"compare_drg_info">>)
    /\ changes' = compare_drg_info(v1_info, v2_info)
    /\ pc' = "summary"
    /\ UNCHANGED <<v1_info, v2_info, old_text, new_text, highlighted,
                   version1, version2, examples, raised, stdout, exit_code>>

\* lines 146-154
PrintSummary ==
    /\ pc = "summary"
    /\ stdout' = Append(stdout,
                        <<"summary", Len(v1_info), Len(v2_info), Len(changes.new),
                          Len(changes.removed), Len(changes.mdc_changed),
                          Len(changes.type_changed), Len(changes.desc_changed),
                          Len(changes.unchanged)>>)
    /\ pc' = IF examples # 0 THEN "examples" ELSE "end"
    /\ UNCHANGED <<v1_info, v2_info, changes, old_text, new_text, highlighted,
                   version1, version2, examples, raised, calls, exit_code>>

\* lines 157-196
ShowExamples ==
    /\ pc = "examples"
    /\ stdout' = stdout \o ExampleSections(changes, examples)
    /\ pc' = "end"
    /\ UNCHANGED <<v1_info, v2_info, changes, old_text, new_text, highlighted,
                   version1, version2, examples, raised, calls, exit_code>>

\* lines 198-200: the handler prints the message and the available versions;
\* raised keeps the exception that was caught
Except ==
    /\ pc = "except"
    /\ stdout' = stdout \o << <<"Error", raised.msg>>,
                             <<"Available versions", get_available_versions>> >>
    /\ pc' = "end"
    /\ UNCHANGED <<v1_info, v2_info, changes, old_text, new_text, highlighted,
                   version1, version2, examples, raised, calls, exit_code>>

\* the script has run to its last line: the interpreter exits with status 0
Exit ==
    /\ pc = "end"
    /\ exit_code' = 0
    /\ pc' = "exited"
    /\ UNCHANGED <<v1_info, v2_info, changes, old_text, new_text, highlighted,
                   version1, version2, examples, raised, stdout, calls>>

Next ==
    \/ Validate
    \/ PrintHeader
    \/ ReadFirst
    \/ ReadSecond
    \/ CompareCall
    \/ PrintSummary
    \/ ShowExamples
    \/ Except
    \/ Exit

Spec == InitCLI /\ [][Next]_vars

----------------------------------------------------------------------------
(* Properties of compare_drg_info                                           *)

Compared == pc = "compared"

Categories == {"new", "removed", "mdc_changed", "type_changed", "desc_changed",
               "unchanged"}
ChangedCategories == {"mdc_changed", "type_changed", "desc_changed"}

\* the codes of the entries of one category, in order
CodesIn(ch, cat) ==
    IF cat = "unchanged" THEN ch.unchanged
    ELSE [i \in 1..Len(ch[cat]) |-> ch[cat][i][1]]

CodeSetIn(ch, cat) == Range(CodesIn(ch, cat))

\* number of entries, over all categories, that carry the code c
Occurrences(ch, c) ==
    LET n(cat) == Cardinality({i \in 1..Len(CodesIn(ch, cat)) : CodesIn(ch, cat)[i] = c})
    IN  n("new") + n("removed") + n("mdc_changed") + n("type_changed")
          + n("desc_changed") + n("unchanged")

Union12 == KeySet(v1_info) \cup KeySet(v2_info)
Both12 == KeySet(v1_info) \cap KeySet(v2_info)

\* C1: every code of old.keys() | new.keys() is in exactly one category,
\* exactly once, and no other code is in any category.
C1_Totality ==
    Compared =>
        /\ \A c \in Union12 : Occurrences(changes, c) = 1
        /\ \A cat \in Categories : CodeSetIn(changes, cat) \subseteq Union12

C1_Witness ==
    /\ Compared
    /\ Cardinality(Union12) = 2
    /\ Cardinality({cat \in Categories : changes[cat] # <<>>}) = 2
    /\ Both12 # {}

\* C2: a code present in both versions is classified by the first differing
\* field in the order mdc, (is_medical, is_surgical), desc.
C2_Priority ==
    Compared =>
        \A c \in Both12 :
            LET a == Get(v1_info, c)
                b == Get(v2_info, c)
                mdcDiff == a.mdc # b.mdc
                typeDiff == a.is_medical # b.is_medical \/ a.is_surgical # b.is_surgical
                descDiff == a.desc # b.desc
            IN  /\ c \in CodeSetIn(changes, "mdc_changed") <=> mdcDiff
                /\ c \in CodeSetIn(changes, "type_changed") <=> ~mdcDiff /\ typeDiff
                /\ c \in CodeSetIn(changes, "desc_changed") <=>
                       ~mdcDiff /\ ~typeDiff /\ descDiff
                /\ c \in CodeSetIn(changes, "unchanged") <=>
                       ~mdcDiff /\ ~typeDiff /\ ~descDiff

\* a record whose mdc, flags and description all change, classified mdc_changed
C2_Witness ==
    /\ Compared
    /\ \E c \in Both12 :
          /\ Get(v1_info, c).mdc # Get(v2_info, c).mdc
          /\ Get(v1_info, c).desc # Get(v2_info, c).desc
          /\ Get(v1_info, c).is_medical # Get(v2_info, c).is_medical
          /\ c \in CodeSetIn(changes, "mdc_changed")

\* C3: 'new' holds exactly the codes of new that old lacks, each with the
\* record of new; 'removed' exactly the codes of old that new lacks, each with
\* the record of old; such codes are in no other category.
C3_NewRemoved ==
    Compared =>
        /\ Range(changes.new) =
              {<<c, Get(v2_info, c)>> : c \in KeySet(v2_info) \ KeySet(v1_info)}
        /\ Range(changes.removed) =
              {<<c, Get(v1_info, c)>> : c \in KeySet(v1_info) \ KeySet(v2_info)}
        /\ \A cat \in ChangedCategories \cup {"unchanged"} :
              CodeSetIn(changes, cat) \subseteq Both12

C3_Witness ==
    /\ Compared
    /\ Len(changes.new) = 1
    /\ Len(changes.removed) = 1
    /\ changes.new[1][2] # changes.removed[1][2]

\* a changed entry with its two records exchanged
SwapEntry(e) == <<e[1], e[3], e[2]>>

\* C4: compare_drg_info(B, A) is compare_drg_info(A, B) with 'new' and
\* 'removed' exchanged, the same codes in the other four categories, and the
\* old and new records exchanged in every changed entry.
C4_Symmetry ==
    Compared =>
        LET r == compare_drg_info(v2_info, v1_info)
        IN  /\ r.new = changes.removed
            /\ r.removed = changes.new
            /\ r.unchanged = changes.unchanged
            /\ \A cat \in ChangedCategories :
                  /\ CodeSetIn(r, cat) = CodeSetIn(changes, cat)
                  /\ r[cat] = [i \in 1..Len(changes[cat]) |-> SwapEntry(changes[cat][i])]

C4_Witness ==
    /\ Compared
    /\ changes.new # <<>>
    /\ changes.removed = <<>>
    /\ changes.mdc_changed # <<>>
    /\ compare_drg_info(v2_info, v1_info).removed = changes.new

\* the two dicts hold the same records under the same keys
SameMapping(d1, d2) == Range(d1) = Range(d2)

\* C5: comparing a record set with itself puts every code in 'unchanged'
\* and leaves the five other categories empty.
C5_Idempotence ==
    Compared /\ SameMapping(v1_info, v2_info) =>
        /\ Range(changes.unchanged) = KeySet(v1_info)
        /\ Len(changes.unchanged) = Len(v1_info)
        /\ \A cat \in Categories \ {"unchanged"} : changes[cat] = <<>>

C5_Witness ==
    /\ Compared
    /\ v1_info = v2_info
    /\ Len(v1_info) = 1
    /\ v1_info[1][2].is_medical # v1_info[1][2].is_surgical
    /\ Len(changes.unchanged) = 1

Ascending(codes) ==
    \A i \in 1..(Len(codes) - 1) : StrLess(codes[i], codes[i + 1])

\* every insertion order of the same mapping
Perms(d) ==
    {[i \in 1..Len(d) |-> d[f[i]]] :
        f \in {g \in [1..Len(d) -> 1..Len(d)] :
                  \A i, j \in 1..Len(d) : i # j => g[i] # g[j]}}

\* C8: in every category the codes are strictly ascending in string order,
\* and the result is the same for every insertion order of the two inputs.
C8_Ordered ==
    Compared =>
        /\ \A cat \in Categories : Ascending(CodesIn(changes, cat))
        /\ \A p1 \in Perms(v1_info), p2 \in Perms(v2_info) :
              compare_drg_info(p1, p2) = changes

\* "2" inserted before "10", both new: returned as "10", "2"
C8_Witness ==
    /\ Compared
    /\ Keys(v2_info) = << <<2>>, <<1, 0>> >>
    /\ CodesIn(changes, "new") = << <<1, 0>>, <<2>> >>

----------------------------------------------------------------------------
(* Properties of highlight_changes                                          *)

Highlighted == pc = "highlighted"

Markers == {RED, GREEN, RESET}

\* the output with its markers removed
Strip(out) == SelectSeq(out, LAMBDA t : t \notin Markers)

RECURSIVE Spans(_, _, _, _, _)
\* the characters of out outside (inside = FALSE) or inside (inside = TRUE)
\* the spans opened by the marker on and closed by RESET
Spans(out, n, on, open, inside) ==
    IF n > Len(out) THEN <<>>
    ELSE IF out[n] = on THEN Spans(out, n + 1, on, TRUE, inside)
    ELSE IF out[n] = RESET THEN Spans(out, n + 1, on, FALSE, inside)
    ELSE (IF open = inside THEN <<out[n]>> ELSE <<>>)
           \o Spans(out, n + 1, on, open, inside)

\* markers alternate on, RESET, starting with on and ending with RESET, and
\* no span is empty
WellMarked(out, on) ==
    LET ms == SelectSeq(out, LAMBDA t : t \in Markers)
    IN  /\ Len(ms) % 2 = 0
        /\ \A i \in 1..Len(ms) : ms[i] = (IF i % 2 = 1 THEN on ELSE RESET)
        /\ \A i \in 1..(Len(out) - 1) : out[i] = on => out[i + 1] \notin Markers

RECURSIVE Runs(_, _, _, _, _)
\* the runs of text that the opcodes with a tag in tags cover, joined;
\* lo = 2 takes the runs of the old text, lo = 4 those of the new text
Runs(ops, n, tags, text, lo) ==
    IF n > Len(ops) THEN <<>>
    ELSE (IF ops[n][1] \in tags THEN Slice(text, ops[n][lo], ops[n][lo + 1]) ELSE <<>>)
           \o Runs(ops, n + 1, tags, text, lo)

\* C9: the equal runs are copied unmarked into both outputs, the deleted and
\* replaced runs of old_text are marked as deletions in the first output
\* only, the inserted and replacing runs of new_text are marked as
\* insertions in the second output only, and removing the markers gives
\* back old_text and new_text; for "cat" and "car" the outputs are "ca" then
\* the marked "t" and "ca" then the marked "r".
C9_Highlight ==
    Highlighted =>
        LET ops == GetOpcodes(old_text, new_text)
            h1 == highlighted[1]
            h2 == highlighted[2]
        IN  /\ Strip(h1) = old_text
            /\ Strip(h2) = new_text
            /\ GREEN \notin Range(h1) /\ RED \notin Range(h2)
            /\ WellMarked(h1, RED) /\ WellMarked(h2, GREEN)
            /\ Spans(h1, 1, RED, FALSE, FALSE) = Runs(ops, 1, {"equal"}, old_text, 2)
            /\ Spans(h2, 1, GREEN, FALSE, FALSE) = Runs(ops, 1, {"equal"}, new_text, 4)
            /\ Spans(h1, 1, RED, FALSE, FALSE) = Spans(h2, 1, GREEN, FALSE, FALSE)
            /\ Spans(h1, 1, RED, FALSE, TRUE) =
                  Runs(ops, 1, {"delete", "replace"}, old_text, 2)
            /\ Spans(h2, 1, GREEN, FALSE, TRUE) =
                  Runs(ops, 1, {"insert", "replace"}, new_text, 4)
            /\ (old_text = <<"c", "a", "t">> /\ new_text = <<"c", "a", "r">>) =>
                  /\ h1 = <<"c", "a", RED, "t", RESET>>
                  /\ h2 = <<"c", "a", GREEN, "r", RESET>>

C9_Witness ==
    /\ Highlighted
    /\ old_text = <<"c", "a", "t">>
    /\ new_text = <<"c", "a", "r">>
    /\ highlighted = <<<<"c", "a", RED, "t", RESET>>, <<"c", "a", GREEN, "r", RESET>>>>

----------------------------------------------------------------------------
(* Properties of the command line run                                       *)

Exited == pc = "exited"

Printed(kind) == \E i \in 1..Len(stdout) : stdout[i][1] = kind

Called(name) == \E i \in 1..Len(calls) : calls[i][1] = name

\* C6: a run in which validation or a read failed prints an error and the
\* available versions and ends with a non-zero exit status.
C6_FailureExitsNonZero ==
    Exited /\ raised # NoError =>
        /\ Printed("Error")
        /\ Printed("Available versions")
        /\ exit_code # 0

NotFoundInput(v1, v2) == v1 \notin Available \/ v2 \notin Available

\* C7: a failed validation of an absent identifier and a failed validation
\* of two identical identifiers raise exceptions of different kinds, and two
\* identical identifiers always fail as the invalid comparison.
C7_DistinctErrorKinds ==
    Called("validate_versions") /\ version1 = version2 =>
        /\ raised # NoError
        /\ raised.msg = <<"Please specify different versions for comparison">>
        /\ \A u, w \in Identifiers :
              NotFoundInput(u, w) /\ u # w =>
                  validate_versions(u, w).type # raised.type

InvalidRequest ==
    version1 \notin Available \/ version2 \notin Available \/ version1 = version2

IsPrefix(s, t) == Len(s) <= Len(t) /\ s = SubSeq(t, 1, Len(s))

\* C10: with an invalid request nothing is read, compared or summarised;
\* the calls are validate_versions, read_appendix_a of the first version,
\* read_appendix_a of the second version, compare_drg_info, in that order;
\* the summary is printed only after all four.
C10_ValidateFirst ==
    /\ InvalidRequest =>
          /\ ~Called("read_appendix_a")
          /\ ~Called("compare_drg_info")
          /\ ~Printed("summary")
    /\ IsPrefix(calls, << <<"validate_versions", version1, version2>>,
                          <<"read_appendix_a", version1>>,
                          <<"read_appendix_a", version2>>,
                          <<"compare_drg_info">> >>)
    /\ Printed("summary") => Len(calls) = 4 /\ raised = NoError

C10_Witness ==
    /\ Exited
    /\ version1 = version2
    /\ version1 \in Available
    /\ calls = << <<"validate_versions", version1, version2>> >>
    /\ ~Printed("summary")
====
